---- MODULE Spec2Model ----
(***************************************************************************)
(* The quiz session engine of app/(tabs)/index.tsx (component QuizApp):    *)
(* the React state of the component, its handlers, the one-second timer    *)
(* effect and the 500 ms settle-delay continuations of handleAnswerSelect. *)
(*                                                                         *)
(* A handler runs to completion and React commits the batch of setState    *)
(* calls it made; the timer effect then runs iff one of its dependencies   *)
(* [timeLeft, isQuizCompleted, selectedCategory] changed.  A continuation  *)
(* scheduled with setTimeout keeps the values of the render that created   *)
(* it (a closure), and is never cancelled.                                 *)
(*                                                                         *)
(* Time is not counted; only the order the delays force is kept: the       *)
(* continuations all wait 500 ms, so they fire in the order they were      *)
(* scheduled, and a 1000 ms timer armed while a continuation was already   *)
(* pending fires after that continuation.                                  *)
(***************************************************************************)
EXTENDS Integers, Sequences, FiniteSets, TLC

VARIABLES
    allQuizData,          \* useState(QuizData): the question bank
    categories,           \* useState(Object.keys(QuizData))
    selectedCategory,     \* useState(null)
    quizData,             \* useState([]): questions of the selected category
    currentQuestionIndex, \* useState(0)
    answers,              \* useState([])
    score,                \* useState(0)
    isQuizCompleted,      \* useState(false)
    timeLeft,             \* useState(10)
    selectedIndex,        \* useState(null)
    timerArmed,           \* the setTimeout of the timer effect is live
    pending,              \* the setTimeout callbacks of handleAnswerSelect, oldest first
    scores,               \* records pushed to "scores" since the session began
    lastOp                \* the handler or callback that ran last

vars == <<allQuizData, categories, selectedCategory, quizData, currentQuestionIndex,
          answers, score, isQuizCompleted, timeLeft, selectedIndex, timerArmed,
          pending, scores, lastOp>>

-----------------------------------------------------------------------------
(* Bounds *)

\* option buttons rendered per question (indices 0 .. NumOptions-1)
NumOptions == 2

\* an option tap is taken while fewer than MaxPending callbacks of
\* handleAnswerSelect are waiting (a timeout is never held back)
MaxPending == 2

-----------------------------------------------------------------------------
(* Values *)

\* JavaScript null for selectedCategory
null == "null"

\* JavaScript null for selectedIndex (an option index is >= 0, the timeout is -1)
NoIndex == -2

\* the index handleAnswerSelect receives from the timer effect
TimeoutIndex == -1

\* seconds given to every question
TimeLimit == 10

Q(c) == [correct |-> c]

\* A JavaScript value that snapshot.val() can return is tagged with its kind:
\* "null", "array" (val: its elements) or "object" (val: its key/value pairs in
\* insertion order).
Obj(pairs) == [kind |-> "object", val |-> pairs]

Arr(elems) == [kind |-> "array", val |-> elems]

Null == [kind |-> "null", val |-> <<>>]

\* obj[k] is defined (and truthy: the values are lists)
HasKey(obj, k) == obj.kind = "object" /\ \E i \in DOMAIN obj.val : obj.val[i].key = k

\* obj[k]; an absent key (undefined) reads as no list: the handlers read a key
\* only after testing it
Get(obj, k) ==
    IF HasKey(obj, k) THEN obj.val[CHOOSE i \in DOMAIN obj.val : obj.val[i].key = k].value
    ELSE <<>>

\* Object.keys(obj): the keys in insertion order, the indices of an array
ObjectKeys(obj) ==
    IF obj.kind = "object" THEN [i \in DOMAIN obj.val |-> obj.val[i].key]
    ELSE [i \in DOMAIN obj.val |-> ToString(i - 1)]

\* the bundled bank (constants/QuizData)
QuizData == Obj(<< [key |-> "A", value |-> <<Q(1), Q(0)>>] >>)

\* a categorised bank the remote store may hold
RemoteBank == Obj(<< [key |-> "B", value |-> <<Q(0)>>],
                     [key |-> "E", value |-> <<>>] >>)

\* what snapshot.val() can return: nothing, a flat list of questions, a bank
Payloads == { Null, Arr(<<Q(0)>>), Arr(<<>>), RemoteBank }

\* names a category button or a caller can pass
CategoryNames == {"A", "B", "E", "Z"}

Options == 0 .. (NumOptions - 1)

-----------------------------------------------------------------------------
(* The session part of the React state, as one record *)

Session == [selectedCategory     |-> selectedCategory,
            quizData             |-> quizData,
            currentQuestionIndex |-> currentQuestionIndex,
            answers              |-> answers,
            score                |-> score,
            isQuizCompleted      |-> isQuizCompleted,
            timeLeft             |-> timeLeft,
            selectedIndex        |-> selectedIndex]

\* restartQuiz without its setScore(0)
restartQuizKeepsScore(s) == [s EXCEPT !.currentQuestionIndex = 0,
                                      !.answers = <<>>,
                                      !.isQuizCompleted = FALSE,
                                      !.timeLeft = TimeLimit,
                                      !.selectedIndex = NoIndex]

\* restartQuiz without its setIsQuizCompleted(false)
restartQuizKeepsCompleted(s) == [s EXCEPT !.currentQuestionIndex = 0,
                                          !.answers = <<>>,
                                          !.score = 0,
                                          !.timeLeft = TimeLimit,
                                          !.selectedIndex = NoIndex]

\* restartQuiz
restartQuiz(s) == [s EXCEPT !.currentQuestionIndex = 0,
                            !.answers = <<>>,
                            !.score = 0,
                            !.isQuizCompleted = FALSE,
                            !.timeLeft = TimeLimit,
                            !.selectedIndex = NoIndex]

\* if (data) { ... } without the Array.isArray branch
AdoptableAnyTruthy(data) == data.kind # "null"

\* if (data) { if (Array.isArray(data)) ... else ... }: an array is truthy, even empty
Adoptable(data) == data.kind # "null" /\ data.kind # "array"

\* setAllQuizData({...allQuizData, ...data}): the categories of bank kept under data's
AdoptMerged(bank, data) ==
    Obj(SelectSeq(bank.val, LAMBDA p : ~HasKey(data, p.key)) \o data.val)

\* setAllQuizData(data): the bank after data is adopted over bank
Adopt(bank, data) == data

\* allQuizData alone, without allQuizData[category]
SelectableAnyName(bank, category) == bank.kind = "object"

\* allQuizData && allQuizData[category]
Selectable(bank, category) == HasKey(bank, category)

\* index === quizData[currentQuestionIndex]?.correct
IsCorrect(index, qd, cqi) == (cqi + 1) \in DOMAIN qd /\ index = qd[cqi + 1].correct

\* the forEach of saveScoreToFirebase
FinalScore(qd, finalAnswers) ==
    Cardinality({i \in DOMAIN qd : i \in DOMAIN finalAnswers /\ finalAnswers[i] = qd[i].correct})

\* the object pushed to "scores" (its date is left out)
ScoreRecord(k, finalAnswers) ==
    [category       |-> k.selectedCategory,
     score          |-> FinalScore(k.quizData, finalAnswers),
     totalQuestions |-> Len(k.quizData)]

\* (score / quizData.length * 100).toFixed(0): 0/0 is NaN, n/0 is Infinity
Percentage(sc, n) ==
    IF n = 0 THEN [kind |-> IF sc = 0 THEN "NaN" ELSE "Infinity", val |-> 0]
    ELSE [kind |-> "number", val |-> (2 * 100 * sc + n) \div (2 * n)]

\* currentQuestionIndex < quizData.length - 1
HasNext(k) == k.currentQuestionIndex < Len(k.quizData) - 1

\* what the callback of handleAnswerSelect keeps of the render that created it
Closure(s, index) ==
    [index                |-> index,
     answers              |-> s.answers,
     score                |-> s.score,
     quizData             |-> s.quizData,
     currentQuestionIndex |-> s.currentQuestionIndex,
     selectedCategory     |-> s.selectedCategory,
     dueFirst             |-> FALSE]

\* handleAnswerSelect, synchronous part: setSelectedIndex(index)
SelectIndex(s, index) == [s EXCEPT !.selectedIndex = index]

\* handleAnswerSelect, the callback after 500 ms, run with closure k on state s
Settle(s, k) ==
    LET newAnswers == Append(k.answers, k.index)
        s1 == [s EXCEPT !.answers = newAnswers,
                        !.score = IF IsCorrect(k.index, k.quizData, k.currentQuestionIndex)
                                  THEN k.score + 1 ELSE @]
    IN  IF HasNext(k)
        THEN [s1 EXCEPT !.currentQuestionIndex = k.currentQuestionIndex + 1,
                        !.timeLeft = TimeLimit,
                        !.selectedIndex = NoIndex]
        ELSE [s1 EXCEPT !.isQuizCompleted = TRUE,
                        !.score = FinalScore(k.quizData, newAnswers)]

\* the pending callbacks a newly armed 1000 ms timer cannot overtake
MarkDueFirst(pend) == [i \in DOMAIN pend |-> [pend[i] EXCEPT !.dueFirst = TRUE]]

\* the dependency list without selectedCategory
DepsNoCategory(s) == <<s.timeLeft, s.isQuizCompleted>>

\* the dependency list of the timer effect
Deps(s) == <<s.timeLeft, s.isQuizCompleted, s.selectedCategory>>

\* the timer effect without its selectedCategory tests
TimerEffectAnyCategory(old, new, armed, pend) ==
    IF Deps(new) = Deps(old)
    THEN [st |-> new, armed |-> armed, pend |-> pend]
    ELSE IF new.timeLeft > 0 /\ ~new.isQuizCompleted
    THEN [st |-> new, armed |-> TRUE, pend |-> MarkDueFirst(pend)]
    ELSE IF new.timeLeft = 0 /\ ~new.isQuizCompleted
    THEN [st   |-> SelectIndex(new, TimeoutIndex),
          armed |-> FALSE,
          pend |-> Append(pend, Closure(new, TimeoutIndex))]
    ELSE [st |-> new, armed |-> FALSE, pend |-> pend]

\* the timer effect arming a timer at timeLeft = 0 as well
TimerEffectRearmAtZero(old, new, armed, pend) ==
    IF Deps(new) = Deps(old)
    THEN [st |-> new, armed |-> armed, pend |-> pend]
    ELSE IF new.selectedCategory # null /\ new.timeLeft > 0 /\ ~new.isQuizCompleted
    THEN [st |-> new, armed |-> TRUE, pend |-> MarkDueFirst(pend)]
    ELSE IF new.selectedCategory # null /\ new.timeLeft = 0 /\ ~new.isQuizCompleted
    THEN [st   |-> SelectIndex(new, TimeoutIndex),
          armed |-> TRUE,
          pend |-> Append(pend, Closure(new, TimeoutIndex))]
    ELSE [st |-> new, armed |-> FALSE, pend |-> pend]

\* the timer effect without its else-if branch
TimerEffectNoExpiry(old, new, armed, pend) ==
    IF Deps(new) = Deps(old)
    THEN [st |-> new, armed |-> armed, pend |-> pend]
    ELSE IF new.selectedCategory # null /\ new.timeLeft > 0 /\ ~new.isQuizCompleted
    THEN [st |-> new, armed |-> TRUE, pend |-> MarkDueFirst(pend)]
    ELSE [st |-> new, armed |-> FALSE, pend |-> pend]

\* the timer effect, after a commit that took the session from old to new
TimerEffect(old, new, armed, pend) ==
    IF Deps(new) = Deps(old)
    THEN [st |-> new, armed |-> armed, pend |-> pend]
    ELSE IF new.selectedCategory # null /\ new.timeLeft > 0 /\ ~new.isQuizCompleted
    THEN [st |-> new, armed |-> TRUE, pend |-> MarkDueFirst(pend)]
    ELSE IF new.selectedCategory # null /\ new.timeLeft = 0 /\ ~new.isQuizCompleted
    THEN [st   |-> SelectIndex(new, TimeoutIndex),
          armed |-> FALSE,
          pend |-> Append(pend, Closure(new, TimeoutIndex))]
    ELSE [st |-> new, armed |-> FALSE, pend |-> pend]

\* commit the session new, run the timer effect, leave the bank alone
Commit(new, pend) ==
    LET r == TimerEffect(Session, new, timerArmed, pend)
    IN  /\ selectedCategory' = r.st.selectedCategory
        /\ quizData' = r.st.quizData
        /\ currentQuestionIndex' = r.st.currentQuestionIndex
        /\ answers' = r.st.answers
        /\ score' = r.st.score
        /\ isQuizCompleted' = r.st.isQuizCompleted
        /\ timeLeft' = r.st.timeLeft
        /\ selectedIndex' = r.st.selectedIndex
        /\ timerArmed' = r.armed
        /\ pending' = r.pend

-----------------------------------------------------------------------------
(* Views *)

CategorySelect == selectedCategory = null

Completed == selectedCategory # null /\ isQuizCompleted

InQuestion == selectedCategory # null /\ ~isQuizCompleted

\* the option buttons are those of quizData[currentQuestionIndex]
OptionsShown == InQuestion /\ (currentQuestionIndex + 1) \in DOMAIN quizData

-----------------------------------------------------------------------------
(* Initial state and actions *)

Init ==
    /\ allQuizData = QuizData
    /\ categories = ObjectKeys(QuizData)
    /\ selectedCategory = null
    /\ quizData = <<>>
    /\ currentQuestionIndex = 0
    /\ answers = <<>>
    /\ score = 0
    /\ isQuizCompleted = FALSE
    /\ timeLeft = TimeLimit
    /\ selectedIndex = NoIndex
    /\ timerArmed = FALSE
    /\ pending = <<>>
    /\ scores = <<>>
    /\ lastOp = "mount"

\* an onValue callback that also reloads the questions of the running session
OnValueReloading(data) ==
    /\ IF Adoptable(data)
       THEN /\ allQuizData' = Adopt(allQuizData, data)
            /\ categories' = ObjectKeys(data)
            /\ quizData' = IF selectedCategory # null
                           THEN Get(data, selectedCategory) ELSE quizData
       ELSE UNCHANGED <<allQuizData, categories, quizData>>
    /\ UNCHANGED <<selectedCategory, currentQuestionIndex, answers, score,
                   isQuizCompleted, timeLeft, selectedIndex, timerArmed, pending, scores>>
    /\ lastOp' = IF Adoptable(data) THEN "adopted" ELSE "ignored"

\* the onValue callback
OnValue(data) ==
    /\ IF Adoptable(data)
       THEN /\ allQuizData' = Adopt(allQuizData, data)
            /\ categories' = ObjectKeys(data)
       ELSE UNCHANGED <<allQuizData, categories>>
    /\ UNCHANGED <<selectedCategory, quizData, currentQuestionIndex, answers, score,
                   isQuizCompleted, timeLeft, selectedIndex, timerArmed, pending, scores>>
    /\ lastOp' = IF Adoptable(data) THEN "adopted" ELSE "ignored"

\* handleCategorySelect, reachable from the category screen
handleCategorySelect(category) ==
    /\ CategorySelect
    /\ IF Selectable(allQuizData, category)
       THEN /\ Commit(restartQuiz([Session EXCEPT !.selectedCategory = category,
                                                  !.quizData = Get(allQuizData, category)]),
                      pending)
            /\ scores' = <<>>
            /\ lastOp' = "select"
            /\ UNCHANGED <<allQuizData, categories>>
       ELSE /\ lastOp' = "noselect"
            /\ UNCHANGED <<allQuizData, categories, selectedCategory, quizData,
                           currentQuestionIndex, answers, score, isQuizCompleted,
                           timeLeft, selectedIndex, timerArmed, pending, scores>>

\* handleBackToCategories, reachable from the quiz and the completed screen
handleBackToCategories ==
    /\ ~CategorySelect
    /\ Commit(restartQuiz([Session EXCEPT !.selectedCategory = null, !.quizData = <<>>]),
              pending)
    /\ scores' = <<>>
    /\ lastOp' = "back"
    /\ UNCHANGED <<allQuizData, categories>>

\* the Restart button of the completed screen
RestartPressed ==
    /\ Completed
    /\ Commit(restartQuiz(Session), pending)
    /\ scores' = <<>>
    /\ lastOp' = "restart"
    /\ UNCHANGED <<allQuizData, categories>>

\* an option button: handleAnswerSelect(index)
OptionPressed(index) ==
    /\ OptionsShown
    /\ Len(pending) < MaxPending
    /\ Commit(SelectIndex(Session, index), Append(pending, Closure(Session, index)))
    /\ lastOp' = "option"
    /\ UNCHANGED <<allQuizData, categories, scores>>

\* the timer callback: setTimeLeft(timeLeft - 1)
Tick ==
    /\ timerArmed
    /\ \A i \in DOMAIN pending : ~pending[i].dueFirst
    /\ Commit([Session EXCEPT !.timeLeft = timeLeft - 1], pending)
    /\ lastOp' = "tick"
    /\ UNCHANGED <<allQuizData, categories, scores>>

\* the oldest callback of handleAnswerSelect runs
SettleFire ==
    /\ pending # <<>>
    /\ LET k == Head(pending)
       IN  /\ Commit(Settle(Session, k), Tail(pending))
           /\ scores' = IF HasNext(k) THEN scores
                        ELSE Append(scores, ScoreRecord(k, Append(k.answers, k.index)))
    /\ lastOp' = "settle"
    /\ UNCHANGED <<allQuizData, categories>>

Next ==
    \/ \E data \in Payloads : OnValue(data)
    \/ \E category \in CategoryNames : handleCategorySelect(category)
    \/ handleBackToCategories
    \/ RestartPressed
    \/ \E index \in Options : OptionPressed(index)
    \/ Tick
    \/ SettleFire

Spec == Init /\ [][Next]_vars

\* the steps of a user who presses neither Back nor Restart
NextStay ==
    \/ \E data \in Payloads : OnValue(data)
    \/ \E category \in CategoryNames : handleCategorySelect(category)
    \/ \E index \in Options : OptionPressed(index)
    \/ Tick
    \/ SettleFire

\* an armed timer fires and a scheduled callback runs: the event loop delivers
\* every setTimeout that is not cleared
LiveSpec == Init /\ [][NextStay]_vars /\ WF_vars(Tick) /\ WF_vars(SettleFire)

-----------------------------------------------------------------------------
(* Properties *)

\* the answers that equal the correct index of the question at their position
MatchCount(ans, qd) ==
    Cardinality({i \in DOMAIN ans : i \in DOMAIN qd /\ ans[i] = qd[i].correct})

\* the callback k was created for a question of the running session that has an
\* answer recorded by now
RecordedFor(k) ==
    /\ k.selectedCategory = selectedCategory
    /\ k.quizData = quizData
    /\ (k.currentQuestionIndex + 1) \in DOMAIN answers
    /\ k.answers = SubSeq(answers, 1, k.currentQuestionIndex)

TimeoutsIn(pend) == Cardinality({i \in DOMAIN pend : pend[i].index = TimeoutIndex})

IsKeyOf(obj, k) == \E i \in DOMAIN obj.val : obj.val[i].key = k

\* C1: of a tap and a timeout for the same question the first is honoured: when the
\* callback of the later one runs, the question already has its answer and neither
\* answers nor score changes.
C1_FirstEventWins ==
    [][ ( /\ SettleFire
          /\ RecordedFor(Head(pending))
          /\ (Head(pending).index = TimeoutIndex)
               # (answers[Head(pending).currentQuestionIndex + 1] = TimeoutIndex) )
        => (answers' = answers /\ score' = score) ]_vars

\* a tap or a timeout was already taken for the question on screen
SubmittedForCursor ==
    \E i \in DOMAIN pending :
        /\ pending[i].index \in Options
        /\ pending[i].selectedCategory = selectedCategory
        /\ pending[i].currentQuestionIndex = currentQuestionIndex
        /\ pending[i].answers = answers

\* C2: a second tap on an option of the same question during the settle delay is a
\* no-op: selected, answers, score, cursor and completed stay as the first tap set
\* them, both when the second tap is made and when its callback runs.
C2_SecondSubmitIgnored ==
    [][ /\ \A index \in Options :
             (OptionPressed(index) /\ SubmittedForCursor)
             => UNCHANGED <<selectedIndex, answers, score, currentQuestionIndex,
                            isQuizCompleted>>
        /\ ( /\ SettleFire
             /\ RecordedFor(Head(pending))
             /\ Head(pending).index \in Options
             /\ answers[Head(pending).currentQuestionIndex + 1] \in Options )
           => UNCHANGED <<answers, score, currentQuestionIndex, isQuizCompleted>> ]_vars

\* C3: in every completed session there is one answer per question.
C3_CompletedAnswersAll == Completed => Len(answers) = Len(quizData)

\* C4: in every completed session the score shown is the number of recorded answers
\* that equal the correct index of their question.
C4_CompletedScore == Completed => score = MatchCount(answers, quizData)

\* C5: a session publishes at most one record, and only on the step that takes it
\* into Completed.
C5_PublishedOnce ==
    /\ [](Len(scores) <= 1)
    /\ [][ Len(scores') > Len(scores) => (~Completed /\ Completed') ]_vars

\* C6: a record published on a step that leaves a session completed carries the
\* category, the number of questions and the number of matching answers of that
\* session.
C6_RecordMatchesSession ==
    [][ (Len(scores') > Len(scores) /\ Completed')
        => LET r == scores'[Len(scores')]
           IN  /\ r.category = selectedCategory'
               /\ r.totalQuestions = Len(quizData')
               /\ r.score = MatchCount(answers', quizData') ]_vars

\* C7: a delivery of nothing or of a list leaves the bank and the category list as
\* they were.
C7_LegacyAbsentIgnored ==
    [][ \A data \in Payloads :
          (OnValue(data) /\ data.kind \in {"null", "array"})
          => (allQuizData' = allQuizData /\ categories' = categories) ]_vars

C7_Witness ==
    /\ lastOp = "ignored"
    /\ allQuizData = RemoteBank
    /\ categories = <<"B", "E">>

\* C8: a delivered mapping becomes the bank as it is, the category list becomes its
\* keys, no category outside it can be selected any more, and selecting a category
\* loads the list the bank holds for it.
C8_AdoptReplaces ==
    /\ [][ \A data \in Payloads :
             (OnValue(data) /\ data.kind = "object")
             => /\ allQuizData' = data
                /\ categories' = [i \in DOMAIN data.val |-> data.val[i].key] ]_vars
    /\ [](\A c \in CategoryNames :
             ~IsKeyOf(allQuizData, c)
             => ~ENABLED (handleCategorySelect(c) /\ selectedCategory' # null))
    /\ [][ (CategorySelect /\ ~CategorySelect')
           => \E i \in DOMAIN allQuizData.val :
                 /\ allQuizData.val[i].key = selectedCategory'
                 /\ allQuizData.val[i].value = quizData' ]_vars

C8_Witness ==
    /\ lastOp = "select"
    /\ allQuizData = RemoteBank
    /\ selectedCategory = "B"
    /\ quizData = <<Q(0)>>

\* C9: the Restart button of a completed session sets cursor 0, score 0, no answers,
\* not completed, timeLeft 10 and no selection, and keeps category and questions:
\* the session is at question 0 again.
C9_RestartResets ==
    [][ RestartPressed
        => /\ currentQuestionIndex' = 0
           /\ score' = 0
           /\ answers' = <<>>
           /\ isQuizCompleted' = FALSE
           /\ timeLeft' = TimeLimit
           /\ selectedIndex' = NoIndex
           /\ selectedCategory' = selectedCategory
           /\ quizData' = quizData
           /\ InQuestion' ]_vars

C9_Witness ==
    /\ lastOp = "restart"
    /\ InQuestion
    /\ currentQuestionIndex = 0
    /\ Len(quizData) = 2
    /\ timerArmed

\* C10: Back is taken on every screen that has a category, and leaves no category
\* and no questions; while no category is selected no timer is live, timeLeft is
\* not decremented and no timeout is raised.
C10_BackToCategories ==
    /\ [](~CategorySelect => ENABLED handleBackToCategories)
    /\ [][ handleBackToCategories => (CategorySelect' /\ quizData' = <<>>) ]_vars
    /\ [](CategorySelect => (~timerArmed /\ timeLeft = TimeLimit))
    /\ [][ (CategorySelect /\ CategorySelect')
           => (timeLeft' = timeLeft /\ TimeoutsIn(pending') <= TimeoutsIn(pending)) ]_vars

C10_Witness ==
    /\ lastOp = "back"
    /\ CategorySelect
    /\ pending # <<>>

\* the fields of the session
sessionVars == <<selectedCategory, quizData, currentQuestionIndex, answers, score,
                 isQuizCompleted, timeLeft, selectedIndex>>

\* C11: selecting a name that is no key of the bank changes no field of the session
\* and enters no other screen.
C11_UnknownCategoryIgnored ==
    [][ \A c \in CategoryNames :
          (handleCategorySelect(c) /\ ~IsKeyOf(allQuizData, c))
          => (UNCHANGED sessionVars /\ UNCHANGED <<timerArmed, pending, scores>>) ]_vars

C11_Witness ==
    /\ lastOp = "noselect"
    /\ CategorySelect
    /\ allQuizData = RemoteBank

\* C12: selecting a category with no question gives a completed session at once,
\* score 0 of 0 with no answer recorded, and the percentage shown for a completed
\* session with no question is the number 0.
C12_EmptyCategoryCompleted ==
    /\ [][ (CategorySelect /\ ~CategorySelect' /\ quizData' = <<>>)
           => (Completed' /\ score' = 0 /\ answers' = <<>>) ]_vars
    /\ []((Completed /\ quizData = <<>>)
           => (answers = <<>> /\ Percentage(score, Len(quizData)) = [kind |-> "number", val |-> 0]))

\* C13: selecting a category of the bank loads its list and starts question 0 afresh:
\* cursor 0, no answers, score 0, not completed, no selection, timeLeft 10 and a
\* live timer, whatever the previous session left.
C13_SelectStartsSession ==
    [][ \A c \in CategoryNames :
          (handleCategorySelect(c) /\ IsKeyOf(allQuizData, c))
          => /\ selectedCategory' = c
             /\ \E i \in DOMAIN allQuizData.val :
                   allQuizData.val[i].key = c /\ allQuizData.val[i].value = quizData'
             /\ currentQuestionIndex' = 0
             /\ answers' = <<>>
             /\ score' = 0
             /\ isQuizCompleted' = FALSE
             /\ selectedIndex' = NoIndex
             /\ timeLeft' = TimeLimit
             /\ InQuestion'
             /\ timerArmed' ]_vars

C13_Witness ==
    /\ lastOp = "select"
    /\ selectedCategory = "B"
    /\ quizData = <<Q(0)>>
    /\ pending # <<>>
    /\ timerArmed

\* C14: once an option was tapped for the question on screen, the countdown is
\* cancelled: until that tap settles, no step decrements timeLeft and no step
\* raises a timeout.
C14_SubmitCancelsCountdown ==
    [][ SubmittedForCursor
        => (timeLeft' >= timeLeft /\ TimeoutsIn(pending') <= TimeoutsIn(pending)) ]_vars

\* C15: selecting a category or restarting leaves timeLeft = 10 with a timer armed
\* on that very step, which no callback pending from before can follow, so no tick
\* of an earlier timer is delivered and the first decrement comes a full interval
\* later; navigating back leaves no timer armed, and none is armed while no
\* category is selected.
C15_OperationsCancelCountdown ==
    /\ [][ ( \/ \E c \in CategoryNames : handleCategorySelect(c) /\ IsKeyOf(allQuizData, c)
             \/ RestartPressed )
           => /\ timeLeft' = TimeLimit
              /\ timerArmed'
              /\ \A i \in DOMAIN pending' : pending'[i].dueFirst ]_vars
    /\ [][ handleBackToCategories => (~timerArmed' /\ timeLeft' = TimeLimit) ]_vars
    /\ [](CategorySelect => ~timerArmed)

\* a restart that found the timer of the completed session stopped and a callback
\* still pending
C15_Witness ==
    /\ lastOp = "restart"
    /\ timerArmed
    /\ timeLeft = TimeLimit
    /\ pending # <<>>

\* C16: a delivery of any payload changes no field of the session, no timer and no
\* pending callback; the questions of a running session stay those copied at
\* selection.
C16_DeliveryLeavesSession ==
    [][ \A data \in Payloads :
          OnValue(data) => UNCHANGED <<sessionVars, timerArmed, pending, scores>> ]_vars

\* the bank was replaced during the settle delay of a session on the built-in
\* category, which the new bank does not have
C16_Witness ==
    /\ lastOp = "adopted"
    /\ allQuizData = RemoteBank
    /\ InQuestion
    /\ selectedCategory = "A"
    /\ quizData = <<Q(1), Q(0)>>
    /\ pending # <<>>

\* C17: timeLeft stays within 0 .. 10; it decreases only by 1, and only from a state
\* with a category selected, the session not completed and timeLeft > 0; the step
\* that brings timeLeft to 0 raises one timeout, for the question on screen, and no
\* other step raises a timeout.
C17_CountdownRange ==
    /\ [](timeLeft \in 0 .. TimeLimit)
    /\ [][ timeLeft' < timeLeft
             => /\ timeLeft' = timeLeft - 1
                /\ selectedCategory # null
                /\ ~isQuizCompleted
                /\ timeLeft > 0 ]_vars
    /\ [][ (timeLeft' = 0 /\ timeLeft # 0)
             => /\ pending' = Append(pending, Closure(Session', TimeoutIndex))
                /\ ~timerArmed' ]_vars
    /\ [][ TimeoutsIn(pending') > TimeoutsIn(pending)
             => (timeLeft' = 0 /\ timeLeft = 1) ]_vars

\* the countdown of a question ran out and its timeout is pending
C17_Witness ==
    /\ lastOp = "tick"
    /\ timeLeft = 0
    /\ InQuestion
    /\ TimeoutsIn(pending) = 1
    /\ selectedIndex = TimeoutIndex

\* C18: when timers and callbacks are delivered and the user presses neither Back
\* nor Restart, a session in InQuestion reaches Completed, whether or not an option
\* is ever tapped; a question that timed out is recorded as -1 and adds nothing to
\* the score.
C18_SessionCompletes ==
    /\ InQuestion ~> Completed
    /\ [][ (SettleFire /\ Head(pending).index = TimeoutIndex)
           => /\ answers' = Append(Head(pending).answers, TimeoutIndex)
              /\ HasNext(Head(pending)) => score' = score
              /\ ~HasNext(Head(pending))
                   => score' = MatchCount(Head(pending).answers, Head(pending).quizData) ]_vars

\* a session of two questions completed by its two timeouts alone
C18_Witness ==
    /\ Completed
    /\ lastOp = "settle"
    /\ quizData = <<Q(1), Q(0)>>
    /\ answers = <<TimeoutIndex, TimeoutIndex>>
    /\ score = 0
    /\ Len(scores) = 1

\* C19: a callback of handleAnswerSelect created under another selectedCategory than
\* the present one (the user went back, or went back and selected again, in
\* between) changes nothing of the session when it runs and publishes no record.
C19_StaleContinuationInert ==
    [][ (SettleFire /\ Head(pending).selectedCategory # selectedCategory)
        => UNCHANGED <<currentQuestionIndex, answers, score, isQuizCompleted, timeLeft,
                       selectedIndex, scores>> ]_vars

\* C20: while a question of a non-empty list is on screen, the cursor is inside the
\* list and there is one answer per question before it; the cursor changes only by
\* going to 0 or one question forward.
C20_CursorInRange ==
    /\ []((InQuestion /\ quizData # <<>>)
           => (currentQuestionIndex < Len(quizData) /\ Len(answers) = currentQuestionIndex))
    /\ [][ currentQuestionIndex' # currentQuestionIndex
           => (currentQuestionIndex' = 0 \/ currentQuestionIndex' = currentQuestionIndex + 1) ]_vars

\* C21: the score is never negative, never above the number of recorded answers
\* and, while a category is selected, never above the number of its questions; it
\* rises only by 1, and only on the step that records an option equal to the
\* correct index of the question it was given for, never on a timeout.
C21_ScoreBounds ==
    /\ [](0 <= score /\ score <= Len(answers))
    /\ [](selectedCategory # null => score <= Len(quizData))
    /\ [][ score' > score
           => /\ score' = score + 1
              /\ SettleFire
              /\ Head(pending).index # TimeoutIndex
              /\ IsCorrect(Head(pending).index, Head(pending).quizData,
                           Head(pending).currentQuestionIndex) ]_vars

====
